---- MODULE Spec2Model ----
(***************************************************************************)
(* EZUI client script, dynamic DOM builder (src/ezui-client.js:179-474).   *)
(*                                                                         *)
(* The page loads data.json into componentsData.components (the Component  *)
(* Record Store), builds the element tree under #root from it and, when    *)
(* embedded in an iframe, handles clicks and the host editor's messages.   *)
(*                                                                         *)
(* Encoding of JavaScript values:                                          *)
(*   - parentId null is Null (0); record ids are positive integers;        *)
(*   - an absent `order` is <<>>, a present one is <<n>>;                  *)
(*   - content is content[currentLang]; "" is an absent (or empty, hence   *)
(*     falsy) text;                                                        *)
(*   - styles is the value of every modelled style property, "" when the   *)
(*     property is not set;                                                *)
(*   - the rendered tree is the sequence of the elements under #root in    *)
(*     document (pre-)order, which is the order querySelector searches;    *)
(*     an element is [h, id, up, rec, text, style, sel]: its instance, its *)
(*     data-id, its parent's instance (Container for #root), the store     *)
(*     index of the record it was built from, its own text, its inline     *)
(*     style and whether it carries the class ezui-selected.               *)
(* elementType, attributes and ezuiCms are written once by buildElement    *)
(* and read by no branch of the script; they are left out. styleKey ranges *)
(* over names of single CSS properties.                                    *)
(* The static variant of the script (src/ezui-client.js:7-171), which      *)
(* applies data.json onto existing markup, is a separate script and is not *)
(* part of this machine.                                                   *)
(***************************************************************************)
EXTENDS Integers, Sequences, FiniteSets, TLC

VARIABLES
    isInIframe,   \* window.self !== window.top, fixed at startup
    phase,        \* "loading" | "failed" | "aborted" | "ready": where init() is
    components,   \* componentsData.components
    dom,          \* the elements rendered under #root, in document order
    listening,    \* the click and message listeners are attached
    outbox,       \* messages posted to window.parent, oldest first
    lastCmd       \* history: the last event handled and the sizes before it

vars == <<isInIframe, phase, components, dom, listening, outbox, lastCmd>>

-----------------------------------------------------------------------------
(* Values *)

Null == 0

Container == <<>>

\* The id "" of a record: el.dataset.id = "" is the one data-id that is falsy.
EmptyId == -1

NoOrder == <<>>

StyleKeys == {"color", "margin"}

NoStyles == [k \in StyleKeys |-> ""]

Rec(id, parentId, order, content, styles) ==
    [id |-> id, parentId |-> parentId, order |-> order, content |-> content,
     styles |-> styles]

Plain(id, parentId, order, content) == Rec(id, parentId, order, content, NoStyles)

Indices(s) == [i \in 1..Len(s) |-> i]

-----------------------------------------------------------------------------
(* Tree resolver and DOM builder *)

\* (a.order || 0)
OrderKey(c) == IF c.order = NoOrder THEN 0 ELSE c.order[1]

\* A filter that passes over a record whose own id is the id looked for.
FilterOthersByParent(comps, id) ==
    SelectSeq(Indices(comps),
              LAMBDA i : comps[i].parentId = id /\ comps[i].id # id)

\* componentsData.components.filter(c => c.parentId === id), as store indices
FilterByParent(comps, id) ==
    SelectSeq(Indices(comps), LAMBDA i : comps[i].parentId = id)

\* A sort that is not stable: an element goes before its equals.
RECURSIVE SortTiesReversed(_, _)
SortTiesReversed(comps, idx) ==
    IF idx = <<>> THEN <<>>
    ELSE LET n      == Len(idx)
             front  == SortTiesReversed(comps, SubSeq(idx, 1, n - 1))
             x      == idx[n]
             before == SelectSeq(front,
                         LAMBDA j : OrderKey(comps[j]) - OrderKey(comps[x]) < 0)
             after  == SelectSeq(front,
                         LAMBDA j : OrderKey(comps[j]) - OrderKey(comps[x]) >= 0)
         IN  before \o <<x>> \o after

\* Array.prototype.sort with the comparator (a.order||0) - (b.order||0):
\* a stable sort, computed by insertion.
RECURSIVE SortByOrder(_, _)
SortByOrder(comps, idx) ==
    IF idx = <<>> THEN <<>>
    ELSE LET n      == Len(idx)
             front  == SortByOrder(comps, SubSeq(idx, 1, n - 1))
             x      == idx[n]
             before == SelectSeq(front,
                         LAMBDA j : OrderKey(comps[j]) - OrderKey(comps[x]) <= 0)
             after  == SelectSeq(front,
                         LAMBDA j : OrderKey(comps[j]) - OrderKey(comps[x]) > 0)
         IN  before \o <<x>> \o after

\* The children of a record, as buildElement resolves them.
ChildrenOf(comps, id) == SortByOrder(comps, FilterByParent(comps, id))

\* The text buildElement gives an element.
LeafText(c, children) ==
    IF children = <<>> THEN c.content ELSE ""

\* buildElement(component): the element of record i and, after it, the
\* elements of its subtree. g and pos name the fresh instances; depth counts
\* the nested calls. A call chain longer than the store visits a record twice
\* and so never returns: the engine ends it with a RangeError (overflow).
RECURSIVE buildElement(_, _, _, _, _, _)
RECURSIVE buildChildren(_, _, _, _, _, _)
buildElement(comps, i, up, g, pos, depth) ==
    IF depth > Len(comps) THEN [nodes |-> <<>>, overflow |-> TRUE]
    ELSE LET c        == comps[i]
             h        == <<g, pos>>
             children == ChildrenOf(comps, c.id)
             el       == [h |-> h, id |-> c.id, up |-> up, rec |-> i,
                          text |-> LeafText(c, children), style |-> c.styles,
                          sel |-> FALSE]
             sub      == buildChildren(comps, children, h, g, pos + 1, depth + 1)
         IN  [nodes |-> <<el>> \o sub.nodes, overflow |-> sub.overflow]

\* A loop over the children that stops after the first.
buildFirstChildOnly(comps, kids, up, g, pos, depth) ==
    IF kids = <<>> THEN [nodes |-> <<>>, overflow |-> FALSE]
    ELSE buildElement(comps, Head(kids), up, g, pos, depth)

buildChildren(comps, kids, up, g, pos, depth) ==
    IF kids = <<>> THEN [nodes |-> <<>>, overflow |-> FALSE]
    ELSE LET first == buildElement(comps, Head(kids), up, g, pos, depth)
         IN  IF first.overflow THEN first
             ELSE LET rest == buildChildren(comps, Tail(kids), up, g,
                                            pos + Len(first.nodes), depth)
                  IN  [nodes |-> first.nodes \o rest.nodes,
                       overflow |-> rest.overflow]

\* createElement returns an instance no live element is: the instances of a
\* build are numbered in a generation other than the one of the tree it
\* replaces (the script keeps no reference to an element across handlers).
FreshGen(old) == IF old = <<>> THEN 0 ELSE 1 - old[1].h[1]

\* components.find(c => c.parentId === null), as a sequence of at most one index
FindRoot(comps) ==
    LET roots == SelectSeq(Indices(comps), LAMBDA i : comps[i].parentId = Null)
    IN  IF roots = <<>> THEN <<>> ELSE <<roots[1]>>

\* A buildDOM that looks for the root before it clears #root.
buildDOMKeepingTree(comps, old) ==
    LET root == FindRoot(comps)
    IN  IF root = <<>> THEN [dom |-> old, threw |-> FALSE]
        ELSE LET r == buildElement(comps, root[1], Container, FreshGen(old), 1, 1)
             IN  IF r.overflow THEN [dom |-> <<>>, threw |-> TRUE]
                 ELSE [dom |-> r.nodes, threw |-> FALSE]

\* buildDOM(): the tree under #root afterwards, and whether it threw.
\* root.innerHTML = '' comes first, so a build that throws leaves #root empty.
buildDOM(comps, old) ==
    LET root == FindRoot(comps)
    IN  IF root = <<>> THEN [dom |-> <<>>, threw |-> FALSE]
        ELSE LET r == buildElement(comps, root[1], Container, FreshGen(old), 1, 1)
             IN  IF r.overflow THEN [dom |-> <<>>, threw |-> TRUE]
                 ELSE [dom |-> r.nodes, threw |-> FALSE]

-----------------------------------------------------------------------------
(* Queries on the rendered tree *)

\* document.querySelector(`[data-id="${id}"]`): position of the first match, or 0
QuerySelector(d, id) ==
    LET hits == {p \in 1..Len(d) : d[p].id = id}
    IN  IF hits = {} THEN 0 ELSE CHOOSE p \in hits : \A q \in hits : p <= q

\* el.querySelector('[data-id]'): el has a descendant element with a data-id.
\* Every element other than the first of its subtree that points up to el.
HasChildDataId(d, p) == \E q \in 1..Len(d) : d[q].up = d[p].h

Handles(d) == {d[p].h : p \in 1..Len(d)}

Selected(d) == {d[p].h : p \in {q \in 1..Len(d) : d[q].sel}}

-----------------------------------------------------------------------------
(* Mutation operations: each yields the store and the tree it leaves behind *)

Outcome(comps, d) == [components |-> comps, dom |-> d]

\* An updateContent without the leaf test.
updateContentAnyElement(comps, d, id, content) ==
    LET p == QuerySelector(d, id)
    IN  IF p # 0
        THEN Outcome(comps, [d EXCEPT ![p].text = content])
        ELSE Outcome(comps, d)

\* An updateContent that also writes the text into the records with that id.
updateContentAndStore(comps, d, id, content) ==
    LET p      == QuerySelector(d, id)
        stored == [i \in 1..Len(comps) |->
                     IF comps[i].id = id THEN [comps[i] EXCEPT !.content = content]
                     ELSE comps[i]]
    IN  IF p # 0 /\ ~HasChildDataId(d, p)
        THEN Outcome(stored, [d EXCEPT ![p].text = content])
        ELSE Outcome(comps, d)

\* updateContent(id, content)
updateContent(comps, d, id, content) ==
    LET p == QuerySelector(d, id)
    IN  IF p # 0 /\ ~HasChildDataId(d, p)
        THEN Outcome(comps, [d EXCEPT ![p].text = content])
        ELSE Outcome(comps, d)

\* An updateStyle that rebuilds the tree after setting the property.
updateStyleAndRebuild(comps, d, id, styleKey, value) ==
    Outcome(comps, buildDOM(comps, d).dom)

\* updateStyle(id, styleKey, value)
updateStyle(comps, d, id, styleKey, value) ==
    LET p == QuerySelector(d, id)
    IN  IF p # 0
        THEN Outcome(comps, [d EXCEPT ![p].style[styleKey] = value])
        ELSE Outcome(comps, d)

\* clearHighlight()
clearHighlight(d) == [p \in 1..Len(d) |-> [d[p] EXCEPT !.sel = FALSE]]

\* A highlightElement that marks its target and clears nothing.
highlightWithoutClear(comps, d, id) ==
    LET p == QuerySelector(d, id)
    IN  IF p # 0 THEN Outcome(comps, [d EXCEPT ![p].sel = TRUE])
        ELSE Outcome(comps, d)

\* highlightElement(id)
highlightElement(comps, d, id) ==
    LET cleared == clearHighlight(d)
        p       == QuerySelector(cleared, id)
    IN  IF p # 0
        THEN Outcome(comps, [cleared EXCEPT ![p].sel = TRUE])
        ELSE Outcome(comps, cleared)

\* components.find(c => c.id === id), as a store index, or 0
FindById(comps, id) ==
    LET hits == {i \in 1..Len(comps) : comps[i].id = id}
    IN  IF hits = {} THEN 0 ELSE CHOOSE i \in hits : \A j \in hits : i <= j

\* A reorderComponent that sets the order and leaves the rendered tree alone.
reorderWithoutRebuild(comps, d, id, newOrder) ==
    LET i == FindById(comps, id)
    IN  IF i = 0 THEN Outcome(comps, d)
        ELSE Outcome([comps EXCEPT ![i].order = newOrder], d)

\* reorderComponent(id, newOrder)
reorderComponent(comps, d, id, newOrder) ==
    LET i == FindById(comps, id)
    IN  IF i = 0 THEN Outcome(comps, d)
        ELSE LET after == [comps EXCEPT ![i].order = newOrder]
             IN  Outcome(after, buildDOM(after, d).dom)

\* addComponent(newComp)
addComponent(comps, d, newComp) ==
    LET after == Append(comps, newComp)
    IN  Outcome(after, buildDOM(after, d).dom)

\* A findChildren that pushes the direct children and does not recurse.
findDirectChildren(comps, parentId, depth) ==
    LET kids == FilterByParent(comps, parentId)
    IN  [ids |-> [k \in 1..Len(kids) |-> comps[kids[k]].id], overflow |-> FALSE]

\* A descendant search that gives up silently where the chain of nested calls
\* is longer than the store.
RECURSIVE findChildren(_, _, _)
RECURSIVE findAmongBounded(_, _, _)
findAmongBounded(comps, kids, depth) ==
    IF kids = <<>> \/ depth > Len(comps) THEN [ids |-> <<>>, overflow |-> FALSE]
    ELSE LET c    == comps[Head(kids)]
             sub  == findChildren(comps, c.id, depth + 1)
             rest == findAmongBounded(comps, Tail(kids), depth)
         IN  [ids |-> <<c.id>> \o sub.ids \o rest.ids, overflow |-> FALSE]

\* findChildren(parentId) of deleteComponent: the ids it pushes, in order, and
\* whether the recursion overflows (a chain of nested calls longer than the
\* store repeats a record and never returns).
RECURSIVE findAmong(_, _, _)
findChildren(comps, parentId, depth) ==
    findAmong(comps, FilterByParent(comps, parentId), depth)

findAmong(comps, kids, depth) ==
    IF kids = <<>> THEN [ids |-> <<>>, overflow |-> FALSE]
    ELSE IF depth > Len(comps) THEN [ids |-> <<>>, overflow |-> TRUE]
    ELSE LET c    == comps[Head(kids)]
             sub  == findChildren(comps, c.id, depth + 1)
         IN  IF sub.overflow THEN sub
             ELSE LET rest == findAmong(comps, Tail(kids), depth)
                  IN  [ids |-> <<c.id>> \o sub.ids \o rest.ids,
                       overflow |-> rest.overflow]

\* deleteComponent(id)
deleteComponent(comps, d, id) ==
    LET found == findChildren(comps, id, 1)
    IN  IF found.overflow THEN Outcome(comps, d)
        ELSE LET idsToRemove == {id} \cup {found.ids[k] : k \in 1..Len(found.ids)}
                 after == SelectSeq(comps, LAMBDA c : c.id \notin idsToRemove)
             IN  Outcome(after, buildDOM(after, d).dom)

\* case 'rebuild' of handleMessage
rebuild(comps, d, data) ==
    LET after == IF "components" \in DOMAIN data THEN data.components ELSE comps
    IN  Outcome(after, buildDOM(after, d).dom)

-----------------------------------------------------------------------------
(* Message protocol handler *)

EditorSource == "visual-editor"

Msg(source, type, data) == [source |-> source, type |-> type, data |-> data]

\* A handler without the source test.
AnySource(m) == TRUE

\* if (e.data?.source !== 'visual-editor') return;
FromEditor(m) == m.source = EditorSource

\* The switch of handleMessage.
dispatch(comps, d, m) ==
    CASE m.type = "update-content" ->
             updateContent(comps, d, m.data.id, m.data.content)
      [] m.type = "update-style" ->
             updateStyle(comps, d, m.data.id, m.data.styleKey, m.data.value)
      [] m.type = "highlight" -> highlightElement(comps, d, m.data.id)
      [] m.type = "clear-highlight" -> Outcome(comps, clearHighlight(d))
      [] m.type = "reorder" ->
             reorderComponent(comps, d, m.data.id, m.data.newOrder)
      [] m.type = "add-component" -> addComponent(comps, d, m.data)
      [] m.type = "delete-component" -> deleteComponent(comps, d, m.data.id)
      [] m.type = "rebuild" -> rebuild(comps, d, m.data)
      [] OTHER -> Outcome(comps, d)

\* handleMessage(e)
handleMessage(comps, d, m) ==
    IF ~FromEditor(m) THEN Outcome(comps, d) ELSE dispatch(comps, d, m)

\* el.dataset?.id is truthy
HasIdentity(el) == el.id # EmptyId

\* el.parentElement, as a position; 0 stands for #root and what is above it,
\* none of which has a data-id
ParentElement(d, p) ==
    IF d[p].up = Container THEN 0
    ELSE CHOOSE q \in 1..Len(d) : d[q].h = d[p].up

\* A walk that stops at the target whatever its data-id is.
NearestIsTarget(d, target) == target

\* handleClick(e): the walk from e.target up to the nearest element with a
\* truthy data-id; target 0 is a click outside the built elements (on #root
\* or the body), whose walk ends at null.
RECURSIVE NearestWithId(_, _)
NearestWithId(d, target) ==
    IF target = 0 THEN 0
    ELSE IF HasIdentity(d[target]) THEN target
    ELSE NearestWithId(d, ParentElement(d, target))

ElementSelected(comps, el) ==
    LET i == FindById(comps, el.id)
    IN  [source |-> "ezui-cms", type |-> "element-selected", id |-> el.id,
         known |-> i # 0,
         parentId |-> IF i = 0 THEN Null ELSE comps[i].parentId,
         order |-> IF i = 0 THEN NoOrder ELSE comps[i].order]

EzuiReady(comps) ==
    [source |-> "ezui-cms", type |-> "ezui-ready", elementsCount |-> Len(comps)]

-----------------------------------------------------------------------------
(* Inputs *)

MaxRecs == 3

MaxOutbox == 2

MissingId == 9

Styled == [k \in StyleKeys |-> IF k = "color" THEN "blue" ELSE "4px"]

\* root -> 2 -> 3 -> 4 and root -> 5
DescChain ==
    << Plain(1, Null, NoOrder, ""), Rec(2, 1, <<1>>, "a", Styled),
       Plain(3, 2, NoOrder, "b"), Plain(4, 3, NoOrder, "c"),
       Plain(5, 1, <<1>>, "d") >>

\* a root with content and three children, two of them with equal order
DescSiblings ==
    << Plain(1, Null, NoOrder, "r"), Plain(2, 1, <<2>>, "a"),
       Plain(3, 1, <<1>>, "b"), Plain(4, 1, <<1>>, "c") >>

DescLeaf == << Plain(1, Null, NoOrder, "r") >>

DescNoRoot == << Plain(2, 1, NoOrder, "a") >>

\* root -> 2 -> a leaf whose id is ""
DescAnonLeaf ==
    << Plain(1, Null, NoOrder, ""), Plain(2, 1, <<1>>, ""),
       Plain(EmptyId, 2, NoOrder, "t") >>

\* a root whose id is "", with one child
DescAnonRoot == << Plain(EmptyId, Null, NoOrder, ""), Plain(2, EmptyId, <<1>>, "a") >>

\* a root and a record whose parentId names no record
DescOrphan == << Plain(1, Null, NoOrder, "r"), Plain(4, 7, NoOrder, "c") >>

\* a root and a second record with the root's id, under that id
DescSelfChild == << Plain(1, Null, NoOrder, "r"), Plain(1, 1, NoOrder, "") >>

AddRecords ==
    { Rec(2, 1, NoOrder, "a", Styled),   \* a child of the root
      Plain(3, 1, <<-1>>, "b"),          \* a child ordered before an absent order
      Plain(3, 2, <<0>>, ""),            \* a grandchild
      Plain(2, 1, <<1>>, "b"),           \* a second record with id 2
      Plain(4, 7, NoOrder, "c"),         \* a parentId that names no record
      Plain(2, 3, NoOrder, "a"),         \* with the grandchild, a cycle 2 -> 3 -> 2
      Plain(1, 1, NoOrder, "") }         \* a second record with id 1, under id 1

NoData == [empty |-> TRUE]

Cmd(type, data) == Msg(EditorSource, type, data)

\* Structural commands: the store changes and the tree is rebuilt.
TreeDescriptions ==
    {DescChain, DescSiblings, DescLeaf, DescNoRoot, DescSelfChild}

TreeInbound(comps) ==
    {Cmd("add-component", r) : r \in AddRecords}
    \cup {Cmd("delete-component", [id |-> i]) : i \in {1, 2, 3, MissingId}}
    \cup {Cmd("reorder", [id |-> i, newOrder |-> o]) :
            i \in {2, MissingId}, o \in {<<-1>>, <<1>>}}
    \cup {Cmd("rebuild", NoData)}
    \cup {Cmd("rebuild", [components |-> DescSiblings])}

\* The whole protocol: direct edits of the live tree, selection, structural
\* commands, and messages that do not come from the editor.
Descriptions == {DescSiblings, DescLeaf, DescNoRoot}

EditorInbound(comps) ==
    {Cmd("update-content", [id |-> i, content |-> "x"]) : i \in {1, 2, MissingId}}
    \cup {Cmd("update-style", [id |-> i, styleKey |-> "color", value |-> "red"]) :
            i \in {2, MissingId}}
    \cup {Cmd("highlight", [id |-> i]) : i \in {2, MissingId}}
    \cup {Cmd("clear-highlight", NoData)}
    \cup {Cmd("reorder", [id |-> 2, newOrder |-> <<0>>])}
    \cup {Cmd("add-component", Rec(2, 1, NoOrder, "a", Styled))}
    \cup {Cmd("delete-component", [id |-> 2])}
    \cup {Cmd("rebuild", NoData), Cmd("rebuild", [components |-> comps])}
    \cup {Cmd("ping", NoData)}

\* The same commands under a source other than the editor's, and two of them
\* with no source field (e.data.source undefined, "" here).
ForeignInbound(comps) ==
    {Msg("other", m.type, m.data) : m \in EditorInbound(comps)}
    \cup {Msg("", "delete-component", [id |-> 2]),
          Msg("", "update-content", [id |-> 2, content |-> "x"])}

Inbound(comps) == EditorInbound(comps) \cup ForeignInbound(comps)

-----------------------------------------------------------------------------
(* The state machine *)

NoEvent == Msg("", "none", NoData)

History(ev) == [ev |-> ev, nRecs |-> Len(components), nEls |-> Len(dom)]

Init ==
    /\ isInIframe \in BOOLEAN
    /\ phase = "loading"
    /\ components = <<>>
    /\ dom = <<>>
    /\ listening = FALSE
    /\ outbox = <<>>
    /\ lastCmd = [ev |-> NoEvent, nRecs |-> 0, nEls |-> 0]

\* init(): data.json loaded; buildDOM(); enableEditMode() when embedded
LoadOk(desc) ==
    /\ phase = "loading"
    /\ LET built == buildDOM(desc, dom)
       IN  /\ components' = desc
           /\ dom' = built.dom
           /\ phase' = IF built.threw THEN "aborted" ELSE "ready"
           /\ listening' = (~built.threw /\ isInIframe)
           /\ outbox' = IF ~built.threw /\ isInIframe
                        THEN Append(outbox, EzuiReady(desc)) ELSE outbox
    /\ lastCmd' = History(Msg("page", "load", NoData))
    /\ UNCHANGED isInIframe

\* init(): the fetch or the parse failed; the inline error is shown
LoadFail ==
    /\ phase = "loading"
    /\ phase' = "failed"
    /\ lastCmd' = History(Msg("page", "load-failed", NoData))
    /\ UNCHANGED <<isInIframe, components, dom, listening, outbox>>

\* A listener that is attached from the start of the script.
HandleMessageUnattached(m) ==
    /\ m.type = "add-component" => Len(components) < MaxRecs
    /\ LET out == handleMessage(components, dom, m)
       IN  /\ components' = out.components
           /\ dom' = out.dom
    /\ lastCmd' = History(m)
    /\ UNCHANGED <<isInIframe, phase, listening, outbox>>

\* the message listener runs handleMessage on an inbound message
HandleMessage(m) ==
    /\ listening
    /\ m.type = "add-component" => Len(components) < MaxRecs
    /\ LET out == handleMessage(components, dom, m)
       IN  /\ components' = out.components
           /\ dom' = out.dom
    /\ lastCmd' = History(m)
    /\ UNCHANGED <<isInIframe, phase, listening, outbox>>

\* a message posted to the window while no message listener is attached: no
\* code runs, and nothing keeps the message
DropMessage(m) ==
    /\ ~listening
    /\ lastCmd' = History(m)
    /\ UNCHANGED <<isInIframe, phase, components, dom, listening, outbox>>

\* the click listener runs handleClick on a click
HandleClick(target) ==
    /\ listening
    /\ Len(outbox) < MaxOutbox
    /\ LET p == NearestWithId(dom, target)
       IN  IF p = 0 THEN UNCHANGED <<dom, outbox>>
           ELSE /\ dom' = [clearHighlight(dom) EXCEPT ![p].sel = TRUE]
                /\ outbox' = Append(outbox, ElementSelected(components, dom[p]))
    /\ lastCmd' = History(Msg("user", "click", [target |-> target]))
    /\ UNCHANGED <<isInIframe, phase, components, listening>>

-----------------------------------------------------------------------------
(* The whole protocol *)

Load == \E desc \in Descriptions : LoadOk(desc)

Message == \E m \in Inbound(components) : HandleMessage(m)

Unheard == \E m \in Inbound(components) : DropMessage(m)

Click == \E target \in 0..Len(dom) : HandleClick(target)

Next == Load \/ LoadFail \/ Message \/ Unheard \/ Click

Spec == Init /\ [][Next]_vars

-----------------------------------------------------------------------------
(* Structural editing: load, add, delete, reorder, rebuild *)

TreeLoad == \E desc \in TreeDescriptions : LoadOk(desc)

TreeMessage == \E m \in TreeInbound(components) : HandleMessage(m)

NextTree == TreeLoad \/ LoadFail \/ TreeMessage

SpecTree == Init /\ [][NextTree]_vars

-----------------------------------------------------------------------------
(* Selection by click, with elements whose data-id is "" *)

ClickDescriptions == {DescAnonLeaf, DescAnonRoot}

ClickInbound(comps) ==
    {Cmd("highlight", [id |-> i]) : i \in {1, 2}}
    \cup {Cmd("clear-highlight", NoData)}
    \cup {Cmd("reorder", [id |-> 2, newOrder |-> <<0>>])}
    \cup {Cmd("delete-component", [id |-> 2])}

ClickLoad == \E desc \in ClickDescriptions : LoadOk(desc)

ClickMessage == \E m \in ClickInbound(components) : HandleMessage(m)

NextClick == ClickLoad \/ LoadFail \/ ClickMessage \/ Click

SpecClick == Init /\ [][NextClick]_vars

-----------------------------------------------------------------------------
(* Stores with no root, with records no root reaches, and their repair *)

RootDescriptions == {DescNoRoot, DescOrphan, DescLeaf}

RootInbound(comps) ==
    {Cmd("add-component", r) :
        r \in {Plain(5, Null, NoOrder, "e"), Plain(2, 1, <<1>>, "b")}}
    \cup {Cmd("delete-component", [id |-> i]) : i \in {1, 2}}
    \cup {Cmd("rebuild", NoData)}
    \cup {Cmd("rebuild", [components |-> d]) : d \in {DescLeaf, DescNoRoot}}
    \cup {Cmd("update-content", [id |-> 5, content |-> "x"])}

RootLoad == \E desc \in RootDescriptions : LoadOk(desc)

RootMessage == \E m \in RootInbound(components) : HandleMessage(m)

NextRoot == RootLoad \/ LoadFail \/ RootMessage

SpecRoot == Init /\ [][NextRoot]_vars

-----------------------------------------------------------------------------
(* The parentId relation, stated on the store alone *)

IdsOf(comps) == {comps[i].id : i \in 1..Len(comps)}

UniqueIds(comps) ==
    \A i, j \in 1..Len(comps) : comps[i].id = comps[j].id => i = j

\* The ids of the records below id: the least set that holds the id of every
\* record whose parentId is id or is in the set.
RECURSIVE Below(_, _, _)
Below(comps, id, acc) ==
    LET more == {comps[i].id : i \in {j \in 1..Len(comps) :
                     comps[j].parentId = id \/ comps[j].parentId \in acc}}
    IN  IF more \subseteq acc THEN acc ELSE Below(comps, id, acc \cup more)

Descendants(comps, id) == Below(comps, id, {})

NoCycles(comps) == \A x \in IdsOf(comps) : x \notin Descendants(comps, x)

OneRoot(comps) ==
    Cardinality({i \in 1..Len(comps) : comps[i].parentId = Null}) = 1

ParentsExist(comps) ==
    \A i \in 1..Len(comps) :
        comps[i].parentId = Null \/ comps[i].parentId \in IdsOf(comps)

\* No parent cycle at or below id.
AcyclicBelow(comps, id) ==
    \A x \in {id} \cup Descendants(comps, id) : x \notin Descendants(comps, x)

DeleteCmd(id) == Cmd("delete-component", [id |-> id])

IsRebuildingType(type) ==
    type \in {"reorder", "add-component", "delete-component", "rebuild"}

-----------------------------------------------------------------------------
(* Claims *)

\* C1: delete-component(id), on a store with unique ids and no parent cycle,
\* leaves exactly the records that are neither the record with that id nor one
\* of its transitive descendants, in their original relative order.
C1_DeleteRemovesClosure ==
    [][LET m == lastCmd'.ev
       IN  (m.type = "delete-component" /\ FromEditor(m) /\ HandleMessage(m)
              /\ UniqueIds(components) /\ NoCycles(components))
           => components' =
                SelectSeq(components,
                          LAMBDA c : c.id \notin
                              ({m.data.id} \cup Descendants(components, m.data.id)))
      ]_vars

\* C1 witness: delete-component(2) on root -> 2 -> 3 -> 4, root -> 5 has left
\* the root and record 5.
C1_Witness ==
    /\ lastCmd.ev = DeleteCmd(2)
    /\ lastCmd.nRecs = 5
    /\ components = <<DescChain[1], DescChain[5]>>

\* C2 as stated: whenever the store has exactly one record with parentId null
\* and no parent cycle, the tree built from it has as many elements as the
\* store has records, and no two elements carry the same data-id.
C2_Original ==
    (phase = "ready" /\ OneRoot(components) /\ NoCycles(components))
    => /\ Len(dom) = Len(components)
       /\ \A p, q \in 1..Len(dom) : dom[p].id = dom[q].id => p = q

ValidStore(comps) ==
    /\ UniqueIds(comps)
    /\ OneRoot(comps)
    /\ ParentsExist(comps)
    /\ NoCycles(comps)

\* C2 amended: whenever the store has unique ids, exactly one record with
\* parentId null, no parent cycle, and every other parentId is the id of a
\* record of the store, the tree built from it has as many elements as the
\* store has records, and no two elements carry the same data-id.
C2_BuildCountsRecords ==
    (phase = "ready" /\ ValidStore(components))
    => /\ Len(dom) = Len(components)
       /\ \A p, q \in 1..Len(dom) : dom[p].id = dom[q].id => p = q

\* C2 witness: a tree of four elements built from a valid store of four
\* records after a command.
C2_Witness ==
    /\ ValidStore(components)
    /\ Len(components) = 4
    /\ Len(dom) = 4
    /\ lastCmd.ev.type \in {"reorder", "delete-component", "rebuild"}

\* C3: the children of every rendered element are in ascending order of
\* (order || 0) of the records they were built from, and siblings with equal
\* order are in the order of their records in the store.
C3_SiblingsSorted ==
    \A p, q \in 1..Len(dom) :
        (p < q /\ dom[p].up = dom[q].up)
        => LET a == components[dom[p].rec]
               b == components[dom[q].rec]
           IN  \/ OrderKey(a) < OrderKey(b)
               \/ OrderKey(a) = OrderKey(b) /\ dom[p].rec < dom[q].rec

\* C3 witness: after a reorder, three siblings of which two have equal order
\* and the third, earlier in the store, is rendered last.
C3_Witness ==
    /\ lastCmd.ev.type = "reorder"
    /\ \E p, q, r \in 1..Len(dom) :
          /\ p < q /\ q < r
          /\ dom[p].up = dom[q].up /\ dom[q].up = dom[r].up
          /\ OrderKey(components[dom[p].rec]) = OrderKey(components[dom[q].rec])
          /\ dom[r].rec < dom[p].rec

\* C5 as stated: every reorder, add-component, delete-component and rebuild
\* command the handler receives discards every element instance that was
\* rendered before it, whatever its argument.
C5_Original ==
    [][LET m == lastCmd'.ev
       IN  (IsRebuildingType(m.type) /\ FromEditor(m) /\ HandleMessage(m))
           => Handles(dom') \cap Handles(dom) = {}
      ]_vars

\* The commands that reach buildDOM: add-component and rebuild, a reorder
\* whose id is the id of a record, and a delete-component whose id has no
\* parent cycle at or below it.
ReachesBuild(comps, m) ==
    \/ m.type \in {"add-component", "rebuild"}
    \/ m.type = "reorder" /\ m.data.id \in IdsOf(comps)
    \/ m.type = "delete-component" /\ AcyclicBelow(comps, m.data.id)

\* C5 amended: every add-component and rebuild command, every reorder whose id
\* matches a record, and every delete-component whose id has no parent cycle
\* at or below it, discards every element instance that was rendered before
\* it; the other reorder and delete-component commands leave every rendered
\* instance in place.
C5_RebuildDiscardsInstances ==
    [][LET m == lastCmd'.ev
       IN  (IsRebuildingType(m.type) /\ FromEditor(m) /\ HandleMessage(m))
           => IF ReachesBuild(components, m)
              THEN Handles(dom') \cap Handles(dom) = {}
              ELSE dom' = dom
      ]_vars

\* C5 witness: a reorder of a record of the store has replaced a rendered tree
\* by a tree of the other generation of instances.
C5_Witness ==
    /\ lastCmd.ev.type = "reorder"
    /\ lastCmd.ev.data.id \in IdsOf(components)
    /\ lastCmd.nEls > 0
    /\ Len(dom) > 0
    /\ dom[1].h[1] = 1

\* What a tree shows: per element, in document order, its data-id, the
\* position of its parent (0 under #root) and its own text.
Shape(d) ==
    [p \in 1..Len(d) |->
        [id |-> d[p].id, text |-> d[p].text,
         up |-> IF d[p].up = Container THEN 0 ELSE d[p].up[2]]]

\* The element a command with this id addresses: the first in document order
\* that carries the id, 0 when none does.
Addressed(d, id) ==
    IF \E p \in 1..Len(d) : d[p].id = id
    THEN CHOOSE p \in 1..Len(d) :
            d[p].id = id /\ \A q \in 1..(p - 1) : d[q].id # id
    ELSE 0

HasChildRecord(comps, id) == \E i \in 1..Len(comps) : comps[i].parentId = id

\* C4: a rendered element whose record has a child record in the store has no
\* text of its own, whatever the record's content is.
C4_ParentsHaveNoText ==
    \A p \in 1..Len(dom) :
        HasChildRecord(components, dom[p].id) => dom[p].text = ""

\* C4 witness: update-content was addressed to the root, whose record has
\* content and children, and the root element has no text.
C4_Witness ==
    /\ lastCmd.ev = Cmd("update-content", [id |-> 1, content |-> "x"])
    /\ Len(dom) > 1
    /\ components[dom[1].rec].content = "r"
    /\ HasChildRecord(components, dom[1].id)
    /\ dom[1].text = ""

\* C6: across update-content and update-style every element keeps its
\* instance, data-id, parent and position; nothing changes but the text
\* (update-content) or the one style property (update-style) of the addressed
\* element.
C6_DirectEditsKeepInstances ==
    [][LET m == lastCmd'.ev
       IN  (m.type \in {"update-content", "update-style"} /\ HandleMessage(m))
           => /\ Len(dom') = Len(dom)
              /\ \A p \in 1..Len(dom) :
                    /\ dom'[p].h = dom[p].h
                    /\ dom'[p].id = dom[p].id
                    /\ dom'[p].up = dom[p].up
                    /\ IF p # Addressed(dom, m.data.id) THEN dom'[p] = dom[p]
                       ELSE IF m.type = "update-content"
                       THEN [dom'[p] EXCEPT !.text = dom[p].text] = dom[p]
                       ELSE [dom'[p] EXCEPT !.style[m.data.styleKey] =
                                 dom[p].style[m.data.styleKey]] = dom[p]
      ]_vars

\* C6 witness: update-style has set color on the element with data-id 2 and
\* its margin, set by the build, is still there.
C6_Witness ==
    /\ lastCmd.ev.type = "update-style"
    /\ lastCmd.ev.source = EditorSource
    /\ \E p \in 2..Len(dom) :
          /\ dom[p].id = 2
          /\ dom[p].style["color"] = "red"
          /\ dom[p].style["margin"] = "4px"

\* C7: the rendered tree is the one a build of the current store produces
\* (structure, sibling order and the text of each leaf).
C7_TreeSynchronized ==
    phase = "ready" => Shape(dom) = Shape(buildDOM(components, dom).dom)

\* C8: a rebuild command that carries the store's own current record list
\* leaves the store as it is and the tree with the same shape (data-ids,
\* nesting, sibling order, leaf text).
C8_RebuildIdempotent ==
    [][LET m == lastCmd'.ev
       IN  (/\ m.type = "rebuild"
            /\ FromEditor(m)
            /\ "components" \in DOMAIN m.data
            /\ m.data.components = components
            /\ HandleMessage(m))
           => /\ components' = components
              /\ Shape(dom') = Shape(dom)
      ]_vars

\* C9: a message whose source is not "visual-editor" changes neither the
\* store, nor the rendered tree and its selection, nor the messages sent.
C9_ForeignMessagesIgnored ==
    [][LET m == lastCmd'.ev
       IN  (m.source \in {"other", ""} /\ HandleMessage(m))
           => UNCHANGED <<components, dom, outbox>>
      ]_vars

\* C9 witness: a delete-component for a record of the store arrived from
\* another source while an element was selected; record and selection are
\* still there.
C9_Witness ==
    /\ lastCmd.ev = Msg("other", "delete-component", [id |-> 2])
    /\ 2 \in IdsOf(components)
    /\ Selected(dom) # {}

\* C10: highlight with an id no rendered element carries leaves the set of
\* selected elements as it was.
C10_HighlightAbsentIsNoOp ==
    [][LET m == lastCmd'.ev
       IN  (/\ m.type = "highlight"
            /\ FromEditor(m)
            /\ \A p \in 1..Len(dom) : dom[p].id # m.data.id
            /\ HandleMessage(m))
           => Selected(dom') = Selected(dom)
      ]_vars

\* C11: an update-content, update-style, reorder or delete-component command
\* whose id is the id of no record of the store changes neither the store,
\* nor the rendered tree (instances, text, selection), nor the messages sent.
C11_AbsentIdIsNoOp ==
    [][LET m == lastCmd'.ev
       IN  (/\ m.type \in {"update-content", "update-style", "reorder",
                           "delete-component"}
            /\ FromEditor(m)
            /\ m.data.id \notin IdsOf(components)
            /\ HandleMessage(m))
           => UNCHANGED <<components, dom, outbox>>
      ]_vars

ReadySent == {k \in 1..Len(outbox) : outbox[k].type = "ezui-ready"}

\* C12: ezui-ready is sent at most once, only when embedded and only once
\* init() has built: never after a failed load, and never when the first
\* build rendered nothing for want of a record with parentId null.
C12_ReadyOnceAfterSuccessfulBuild ==
    /\ Cardinality(ReadySent) <= 1
    /\ ReadySent # {} => (isInIframe /\ phase = "ready")
    /\ (lastCmd.ev.type = "load" /\ FindRoot(components) = <<>>)
          => ReadySent = {}

\* C14: the elementsCount of ezui-ready is the number of elements the first
\* build rendered.
C14_ReadyCountsRendered ==
    lastCmd.ev.type = "load"
    => \A k \in ReadySent : outbox[k].elementsCount = Len(dom)

\* The elements on the path from position p up to #root, p included
RECURSIVE UpN(_, _, _)
UpN(d, p, n) == IF n = 0 \/ p = 0 THEN p ELSE UpN(d, ParentElement(d, p), n - 1)

PathUp(d, p) == {UpN(d, p, n) : n \in 0..Len(d)} \ {0}

WithIdentityOnPath(d, p) == {q \in PathUp(d, p) : HasIdentity(d[q])}

ClickedWithoutIdentity(d, t) == t = 0 \/ (t \in 1..Len(d) /\ ~HasIdentity(d[t]))

\* C13: a click whose target has no data-id marks exactly the nearest ancestor
\* that has one, keeps every element instance, and sends one element-selected
\* message with that ancestor's id and the parentId and order of the store
\* record with that id; with no such ancestor, selection and messages stay as
\* they are.
C13_ClickSelectsNearestIdentity ==
    [][LET m == lastCmd'.ev
       IN  (/\ m.type = "click"
            /\ ClickedWithoutIdentity(dom, m.data.target)
            /\ HandleClick(m.data.target))
           => LET path == WithIdentityOnPath(dom, m.data.target)
              IN  IF path = {} THEN UNCHANGED <<components, dom, outbox>>
                  ELSE LET p == CHOOSE q \in path : \A r \in path : r <= q
                           i == FindById(components, dom[p].id)
                       IN  /\ Selected(dom') = {dom[p].h}
                           /\ Handles(dom') = Handles(dom)
                           /\ Len(outbox') = Len(outbox) + 1
                           /\ SubSeq(outbox', 1, Len(outbox)) = outbox
                           /\ LET sent == outbox'[Len(outbox')]
                              IN  /\ sent.type = "element-selected"
                                  /\ sent.id = dom[p].id
                                  /\ i # 0
                                  /\ sent.parentId = components[i].parentId
                                  /\ sent.order = components[i].order
      ]_vars

C13_Witness ==
    /\ lastCmd.ev.type = "click"
    /\ LET t == lastCmd.ev.data.target
       IN  /\ t \in 1..Len(dom)
           /\ ~HasIdentity(dom[t])
           /\ dom[t].up # Container
           /\ Selected(dom) = {dom[t].up}
           /\ outbox # <<>>
           /\ outbox[Len(outbox)].type = "element-selected"
           /\ outbox[Len(outbox)].id = 2
           /\ outbox[Len(outbox)].order = <<0>>

\* A step that runs buildDOM: a load, or an editor command that reaches it
Built ==
    LET m == lastCmd'.ev
    IN  \/ m.type = "load" /\ LoadOk(components')
        \/ /\ IsRebuildingType(m.type) /\ FromEditor(m)
           /\ ReachesBuild(components, m)
           /\ HandleMessage(m)

\* buildDOM found a root and left #root empty: its recursion did not return
BuildDiverged == FindRoot(components') # <<>> /\ dom' = <<>>

\* A record with parentId null exists and a parent cycle lies at or below the
\* id of the first such record.
RootCycle(comps) ==
    LET root == FindRoot(comps)
    IN  root # <<>> /\ ~AcyclicBelow(comps, comps[root[1]].id)

\* C15 as stated: whenever the store holds a parent cycle, buildDOM recurses
\* without bound.
C15_Original ==
    [][(Built /\ ~NoCycles(components')) => BuildDiverged]_vars

\* C15 amended: buildDOM recurses without bound exactly when a parent cycle
\* lies at or below the id of the first record with parentId null; it never
\* does on a store with unique ids, and a load whose build recurses without
\* bound ends init() before edit mode is enabled.
C15_BuildDivergesOnRootCycle ==
    [][Built =>
          /\ BuildDiverged <=> RootCycle(components')
          /\ UniqueIds(components') => ~BuildDiverged
          /\ lastCmd'.ev.type = "load"
               => /\ (phase' = "aborted") <=> RootCycle(components')
                  /\ RootCycle(components') => (~listening' /\ outbox' = <<>>)
      ]_vars

\* C15 witness: add-component of a second record with id 1 under id 1 has left
\* #root empty although the store has a root.
C15_Witness ==
    /\ lastCmd.ev.type = "add-component"
    /\ lastCmd.nEls > 0
    /\ RootCycle(components)
    /\ ~UniqueIds(components)
    /\ dom = <<>>

DeleteStep ==
    LET m == lastCmd'.ev
    IN  m.type = "delete-component" /\ FromEditor(m) /\ HandleMessage(m)

RemainingAfterDelete(comps, id) ==
    SelectSeq(comps, LAMBDA c : c.id \notin ({id} \cup Descendants(comps, id)))

\* C16 as stated: delete-component(id) terminates, rebuild included, when no
\* parent cycle lies at or below id, and otherwise leaves the store as it is.
C16_Original ==
    [][DeleteStep =>
          IF AcyclicBelow(components, lastCmd'.ev.data.id)
          THEN /\ components' = RemainingAfterDelete(components, lastCmd'.ev.data.id)
               /\ ~BuildDiverged
          ELSE UNCHANGED components
      ]_vars

\* C16 amended: when no parent cycle lies at or below id, the descendant
\* search of delete-component(id) terminates, the store loses exactly the
\* closure of id and buildDOM runs on the new store, recursing without bound
\* only if that store has a parent cycle at or below its first root; when a
\* parent cycle lies at or below id, the search recurses without bound and
\* neither the store nor the rendered tree changes.
C16_DeleteTerminatesIffAcyclic ==
    [][DeleteStep =>
          IF AcyclicBelow(components, lastCmd'.ev.data.id)
          THEN /\ components' = RemainingAfterDelete(components, lastCmd'.ev.data.id)
               /\ Handles(dom') \cap Handles(dom) = {}
               /\ BuildDiverged <=> RootCycle(components')
          ELSE UNCHANGED <<components, dom, outbox, listening>>
      ]_vars

\* C16 witness: delete-component(2) on root, 3 under 2, 2 under 3 has left all
\* three records and the rendered root.
C16_Witness ==
    /\ lastCmd.ev = DeleteCmd(2)
    /\ ~AcyclicBelow(components, 2)
    /\ Len(components) = 3
    /\ lastCmd.nRecs = 3
    /\ Len(dom) = 1

C18_DirectEditsKeepStore ==
    [][LET m == lastCmd'.ev
       IN  (/\ m.type \in {"update-content", "update-style", "highlight",
                           "clear-highlight"}
            /\ FromEditor(m)
            /\ HandleMessage(m))
           => components' = components
      ]_vars

\* C18 witness: update-content(2, "x") has set the text of element 2, and the
\* record with id 2 still has its own content.
C18_Witness ==
    /\ lastCmd.ev.type = "update-content"
    /\ FromEditor(lastCmd.ev)
    /\ lastCmd.ev.data.id = 2
    /\ QuerySelector(dom, 2) # 0
    /\ dom[QuerySelector(dom, 2)].text = "x"
    /\ FindById(components, 2) # 0
    /\ components[FindById(components, 2)].content = "a"

\* C19: at most one rendered element is marked selected in every state; after
\* a click that finds an element, and after a highlight, the marked elements
\* are the target alone (none when highlight finds no element), and after a
\* build no element is marked.
C19_AtMostOneSelected ==
    /\ [](Cardinality(Selected(dom)) <= 1)
    /\ [][LET m == lastCmd'.ev
          IN  /\ (m.type = "click" /\ HandleClick(m.data.target)
                    /\ NearestWithId(dom, m.data.target) # 0)
                   => Selected(dom') = {dom[NearestWithId(dom, m.data.target)].h}
              /\ (m.type = "highlight" /\ FromEditor(m) /\ HandleMessage(m))
                   => Selected(dom') =
                        {dom[p].h : p \in {QuerySelector(dom, m.data.id)} \ {0}}
              /\ Built => Selected(dom') = {}
         ]_vars

\* C19 witness: highlight(2) after a click that selected another element has
\* left element 2 as the only marked element.
C19_Witness ==
    /\ lastCmd.ev.type = "highlight"
    /\ FromEditor(lastCmd.ev)
    /\ lastCmd.ev.data.id = 2
    /\ outbox # <<>>
    /\ outbox[Len(outbox)].type = "element-selected"
    /\ outbox[Len(outbox)].id # 2
    /\ Cardinality(Selected(dom)) = 1
    /\ \A p \in 1..Len(dom) : dom[p].sel => dom[p].id = 2

IsCommand(ev) == ev.type \notin {"none", "load", "load-failed", "click"}

\* C20: a message that arrives while no listener is attached (the page is not
\* embedded, the load has not completed, or the load or the first build
\* failed) changes neither the store, nor the rendered tree, nor the messages
\* sent, nor the progress of init(); and it is not replayed: the load that
\* follows leaves the store equal to the loaded description and renders it
\* alone, and edit mode starts only at a load of an embedded page.
C20_CommandsNeedEditMode ==
    /\ [](listening => (isInIframe /\ phase = "ready"))
    /\ [][LET m == lastCmd'.ev
          IN  /\ (IsCommand(m) /\ ~listening)
                   => UNCHANGED <<components, dom, outbox, phase, listening>>
              /\ (m.type = "load" /\ LoadOk(components'))
                   => /\ components' \in Descriptions
                      /\ dom' = buildDOM(components', <<>>).dom
         ]_vars

\* C20 witness: an add-component command has arrived at a page that is loaded
\* and not embedded; the store holds the loaded description alone and the
\* tree its four elements.
C20_Witness ==
    /\ lastCmd.ev.type = "add-component"
    /\ FromEditor(lastCmd.ev)
    /\ ~listening
    /\ phase = "ready"
    /\ ~isInIframe
    /\ components = DescSiblings
    /\ Len(dom) = 4

====
